---- MODULE Spec2Model ----
(***************************************************************************)
(* Model of importlinter/contracts/layers.py: LayersContract.check and its *)
(* helpers (_generate_module_permutations, _module_from_layer,             *)
(* _squash_package, _remove_package, _determine_specific_chains,           *)
(* _convert_chains).  Module names are sequences of name segments, so      *)
(* "c1.high.a" is <<"c1", "high", "a">>.  An import graph is a set of      *)
(* nodes, a set of edges <<importer, imported>> and a function giving the  *)
(* line numbers recorded for each edge.                                    *)
(***************************************************************************)
EXTENDS FiniteSets, Integers, Sequences, TLC

\* Module.is_descendant_of: equal to, or a dotted extension of, the other name.
IsDescendantOf(m, p) ==
    Len(m) >= Len(p) /\ SubSeq(m, 1, Len(p)) = p

\* Layer objects: name and is_optional.
Layer(n, opt) == [name |-> n, is_optional |-> opt]

\* LayersContract._module_from_layer ("" stands for container None).
ModuleFromLayer(layer, container) ==
    IF container # "" THEN <<container, layer.name>> ELSE <<layer.name>>

\* ImportGraph.find_descendants (strictly below m).
FindDescendants(N, m) == {x \in N : IsDescendantOf(x, m) /\ x # m}

\* ImportGraph.find_modules_directly_imported_by / find_modules_that_directly_import.
ImportedBy(E, m) == {e[2] : e \in {f \in E : f[1] = m}}
Importers(E, m)  == {e[1] : e \in {f \in E : f[2] = m}}

\* ImportGraph.remove_module: removes the node and every edge touching it.
RemoveModules(G, S) ==
    [nodes |-> G.nodes \ S,
     edges |-> {e \in G.edges : e[1] \notin S /\ e[2] \notin S},
     lines |-> [e \in {f \in G.edges : f[1] \notin S /\ f[2] \notin S} |-> G.lines[e]]]

\* LayersContract._squash_package: collapse P and its descendants into one
\* node, re-adding the boundary imports with add_import (no line number).
SquashPackage(P, G) ==
    LET members  == {P} \cup FindDescendants(G.nodes, P)
        imported == UNION {{y \in ImportedBy(G.edges, m) : ~IsDescendantOf(y, P)} : m \in members}
        importer == UNION {{x \in Importers(G.edges, m) : ~IsDescendantOf(x, P)} : m \in members}
        R        == RemoveModules(G, members)
        newE     == {<<x, P>> : x \in importer} \cup {<<P, y>> : y \in imported}
    IN [nodes |-> R.nodes \cup {P},
        edges |-> R.edges \cup newE,
        lines |-> [e \in R.edges \cup newE |-> IF e \in R.edges THEN R.lines[e] ELSE {}]]

\* LayersContract._remove_package: the package and its descendants.
RemovePackage(P, G) ==
    RemoveModules(G, {P} \cup FindDescendants(G.nodes, P))

\* LayersContract._generate_module_permutations, loop by loop.
LowerLoopAdjacentOnly(hm, ls, j, c, N) ==
    IF j > Len(ls) THEN <<>>
    ELSE LET lm == ModuleFromLayer(ls[j], c)
         IN IF lm \in N THEN << <<hm, lm>> >> ELSE <<>>

RECURSIVE LowerLoop(_, _, _, _, _)
LowerLoop(hm, ls, j, c, N) ==
    IF j > Len(ls) THEN <<>>
    ELSE LET lm == ModuleFromLayer(ls[j], c)
         IN (IF lm \in N THEN << <<hm, lm>> >> ELSE <<>>) \o LowerLoop(hm, ls, j + 1, c, N)

RECURSIVE HigherLoop(_, _, _, _)
HigherLoop(ls, i, c, N) ==
    IF i > Len(ls) THEN <<>>
    ELSE LET hm == ModuleFromLayer(ls[i], c)
         IN (IF hm \in N THEN LowerLoop(hm, ls, i + 1, c, N) ELSE <<>>)
            \o HigherLoop(ls, i + 1, c, N)

RECURSIVE ContainerLoop(_, _, _, _)
ContainerLoop(ls, qc, k, N) ==
    IF k > Len(qc) THEN <<>>
    ELSE HigherLoop(ls, 1, qc[k], N) \o ContainerLoop(ls, qc, k + 1, N)

GenerateModulePermutations(ls, conts, N) ==
    ContainerLoop(ls, IF conts = <<>> THEN <<"">> ELSE conts, 1, N)

\* networkx.all_shortest_paths: every path of minimum edge count from s to t.
RECURSIVE PathsOfLen(_, _, _, _)
PathsOfLen(E, s, t, k) ==
    IF k = 0 THEN (IF s = t THEN {<<s>>} ELSE {})
    ELSE UNION {{<<s>> \o p : p \in PathsOfLen(E, n, t, k - 1)} : n \in ImportedBy(E, s)}

AllShortestPaths(G, s, t) ==
    LET ks == {k \in 1..Cardinality(G.nodes) : PathsOfLen(G.edges, s, t, k) # {}}
    IN IF ks = {} THEN {} ELSE PathsOfLen(G.edges, s, t, CHOOSE k \in ks : \A j \in ks : k <= j)

\* list(...) of a set of paths, in some order.
RECURSIVE SetToSeq(_)
SetToSeq(S) ==
    IF S = {} THEN <<>>
    ELSE LET x == CHOOSE y \in S : TRUE IN <<x>> \o SetToSeq(S \ {x})

\* Body of the pair loop of LayersContract.check (lines 77-95) on a deep copy
\* of the graph; the caller guarantees self.containers is non-empty.
PairTempGraph(pair, G, ls, conts) ==
    LET higher == pair[1]
        lower  == pair[2]
        T1 == SquashPackage(higher, SquashPackage(lower, G))
        others == {ModuleFromLayer(ls[i], conts[1]) : i \in DOMAIN ls} \ {higher, lower}
        RECURSIVE Prune(_, _)
        Prune(T, S) == IF S = {} THEN T
                       ELSE LET m == CHOOSE x \in S : TRUE IN Prune(RemovePackage(m, T), S \ {m})
    IN Prune(T1, others)

LayerChainData(pair, G, ls, conts) ==
    SetToSeq(AllShortestPaths(PairTempGraph(pair, G, ls, conts), pair[2], pair[1]))

(***************************************************************************)
(* _determine_specific_chains and _convert_chains as called from check:    *)
(* each element of high_level_invalid_chains is the list of coarse paths   *)
(* of one pair.  Graph queries given a list instead of a module name either *)
(* raise (unhashable key) or return nothing, depending on the graph        *)
(* adapter; both outcomes are kept.                                        *)
(***************************************************************************)
Ok(cs) == [err |-> "", chains |-> cs]
Err(k) == [err |-> k, chains |-> <<>>]

\* One element X (a list of coarse paths): outcomes for the converted chains.
SpecificChainsOfPathList(X) ==
    IF Len(X) = 2
    THEN \* invalid_chains.append(X); _convert_chains pairs X[1] with X[2]
         {Err("TypeError"),
          Ok(<< << [importer |-> X[1], imported |-> X[2], line_numbers |-> {},
                    is_module |-> FALSE] >> >>)}
    ELSE IF Len(X) = 1
    THEN {Err("IndexError")}       \* high_level_invalid_chain[1]
    ELSE {Err("TypeError"), Ok(<<>>)}

RECURSIVE DetermineFrom(_, _)
DetermineFrom(hl, k) ==
    IF k > Len(hl) THEN {Ok(<<>>)}
    ELSE UNION {IF a.err # "" THEN {a}
                ELSE {IF b.err # "" THEN b ELSE Ok(a.chains \o b.chains)
                      : b \in DetermineFrom(hl, k + 1)}
                : a \in SpecificChainsOfPathList(hl[k])}

DetermineSpecificChains(hl) == DetermineFrom(hl, 1)

(***************************************************************************)
(* Inputs of a check: contract configuration and import graph.             *)
(***************************************************************************)
LayerConfigs ==
    { <<Layer("high", FALSE), Layer("low", FALSE)>>,
      <<Layer("high", FALSE), Layer("mid", FALSE), Layer("low", FALSE)>>,
      <<Layer("high", FALSE), Layer("aux", TRUE), Layer("low", FALSE)>> }

ContainerConfigs == { <<>>, <<"c1">>, <<"c1", "c2">> }

\* Child module created under each layer module (the optional "aux" layer has
\* no module in any graph).
ChildOf(n) == CASE n = "high" -> "a" [] n = "mid" -> "y" [] n = "low" -> "b"

QuasiContainers(conts) == IF conts = <<>> THEN <<"">> ELSE conts

\* Nodes of the graph; the layer named `missing` is absent from it.
GraphNodes(ls, conts, missing) ==
    LET qc == QuasiContainers(conts)
        present == {i \in DOMAIN ls : ~ls[i].is_optional /\ ls[i].name # missing}
    IN {<<"x1">>, <<"x2">>}
       \cup {<<qc[k]>> : k \in {k2 \in DOMAIN qc : qc[k2] # ""}}
       \cup UNION {{ModuleFromLayer(ls[i], qc[k]) : i \in present} : k \in DOMAIN qc}
       \cup UNION {{Append(ModuleFromLayer(ls[i], qc[k]), ChildOf(ls[i].name)) : i \in present}
                   : k \in DOMAIN qc}

\* Module <container>.<layer>.<child>.
M(c, n) == Append(ModuleFromLayer(Layer(n, FALSE), c), ChildOf(n))

CandidateEdges(conts, N) ==
    LET c == QuasiContainers(conts)[1]
        es == { <<M(c, "low"), M(c, "high")>>, <<M(c, "high"), M(c, "low")>>,
                <<M(c, "low"), M(c, "mid")>>, <<M(c, "mid"), M(c, "high")>>,
                <<M(c, "low"), <<"x1">> >>, << <<"x1">>, M(c, "high")>>,
                <<M(c, "low"), <<"x2">> >>, << <<"x2">>, M(c, "high")>>,
                <<M("c2", "low"), M("c2", "high")>> }
    IN {e \in es : e[1] \in N /\ e[2] \in N}

LineOf(e) == IF e[2] = <<"x2">> THEN {10, 12} ELSE {10}

VARIABLES layers, containers, ignore_imports, graph, graph0,
          pc, todo, is_kept, high_level_invalid_chains, removed_imports,
          invalid_chains, error, package, coarse

vars == <<layers, containers, ignore_imports, graph, graph0, pc, todo, is_kept,
          high_level_invalid_chains, removed_imports, invalid_chains, error,
          package, coarse>>

Init ==
    \E ls \in LayerConfigs, conts \in ContainerConfigs, missing \in {"", "low"} :
    LET N == GraphNodes(ls, conts, missing) IN
    \E E \in SUBSET CandidateEdges(conts, N) :
    \E ig \in {{}} \cup {{e} : e \in E} :
        /\ layers = ls
        /\ containers = conts
        /\ ignore_imports = ig
        /\ graph = [nodes |-> N, edges |-> E, lines |-> [e \in E |-> LineOf(e)]]
        /\ graph0 = graph
        /\ pc = "start"
        /\ todo = <<>>
        /\ is_kept = TRUE
        /\ high_level_invalid_chains = <<>>
        /\ removed_imports = {}
        /\ invalid_chains = <<>>
        /\ error = ""
        /\ package = <<>>
        /\ coarse = <<>>

\* helpers.pop_imports: capture the provenance of each ignored import and
\* remove it from the graph.
PopImports(G, ig) ==
    [nodes |-> G.nodes,
     edges |-> G.edges \ ig,
     lines |-> [e \in G.edges \ ig |-> G.lines[e]]]

\* check, lines 60-76: pop the ignored imports and start the pair loop.
Start ==
    /\ pc = "start"
    /\ removed_imports' = {<<e, graph.lines[e]>> : e \in ignore_imports}
    /\ graph' = PopImports(graph, ignore_imports)
    /\ todo' = GenerateModulePermutations(layers, containers, graph'.nodes)
    /\ is_kept' = TRUE
    /\ high_level_invalid_chains' = <<>>
    /\ pc' = "pairs"
    /\ UNCHANGED <<layers, containers, ignore_imports, graph0, invalid_chains, error>>

\* check, lines 77-100: one iteration of the pair loop.  self.containers[0]
\* raises when no container is configured (None or []).
EvaluatePair ==
    /\ pc = "pairs"
    /\ todo # <<>>
    /\ IF containers = <<>>
       THEN /\ pc' = "error"
            /\ error' = "containers[0]"
            /\ UNCHANGED <<todo, is_kept, high_level_invalid_chains>>
       ELSE LET data == LayerChainData(Head(todo), graph, layers, containers) IN
            /\ todo' = Tail(todo)
            /\ IF data # <<>>
               THEN /\ is_kept' = FALSE
                    /\ high_level_invalid_chains' = Append(high_level_invalid_chains, data)
               ELSE UNCHANGED <<is_kept, high_level_invalid_chains>>
            /\ UNCHANGED <<pc, error>>
    /\ UNCHANGED <<layers, containers, ignore_imports, graph, graph0, removed_imports,
                   invalid_chains>>

\* check, line 107: ipdb.set_trace() either raises (ipdb missing, stdin
\* captured) or returns once the session is continued.
Breakpoint ==
    /\ pc = "pairs"
    /\ todo = <<>>
    /\ \/ pc' = "specific" /\ error' = error
       \/ pc' = "error" /\ error' = "ipdb"
    /\ UNCHANGED <<layers, containers, ignore_imports, graph, graph0, todo, is_kept,
                   high_level_invalid_chains, removed_imports, invalid_chains>>

\* check, lines 108-111: reconstruct the specific chains and return.
SpecificChains ==
    /\ pc = "specific"
    /\ \E out \in DetermineSpecificChains(high_level_invalid_chains) :
         IF out.err # ""
         THEN pc' = "error" /\ error' = out.err /\ invalid_chains' = invalid_chains
         ELSE pc' = "done" /\ error' = error /\ invalid_chains' = out.chains
    /\ UNCHANGED <<layers, containers, ignore_imports, graph, graph0, todo, is_kept,
                   high_level_invalid_chains, removed_imports>>

Next == (Start \/ EvaluatePair \/ Breakpoint \/ SpecificChains) /\ UNCHANGED <<package, coarse>>

Spec == Init /\ [][Next]_vars

(***************************************************************************)
(* Properties of LayersContract.check.                                     *)
(***************************************************************************)
Returned == pc = "done"
Finished == pc \in {"done", "error"}

\* A converted record that is a real edge of the caller's graph.
AuthenticRecord(r) ==
    /\ r.is_module
    /\ <<r.importer, r.imported>> \in graph0.edges
    /\ r.line_numbers = graph0.lines[<<r.importer, r.imported>>]
    /\ r.line_numbers # {}

\* C1: once check has returned, the caller's graph has the same nodes, edges
\* and line numbers as before the call (ignored imports restored).
C1_GraphUnchangedAfterCheck ==
    Returned => graph = graph0

\* Direct-violation scenario: layers ["high", "low"], no containers, only edge
\* low.b -> high.a.
LowB == <<"low", "b">>
HighA == <<"high", "a">>
DirectScenario ==
    /\ layers = <<Layer("high", FALSE), Layer("low", FALSE)>>
    /\ containers = <<>>
    /\ ignore_imports = {}
    /\ graph0.edges = {<<LowB, HighA>>}

\* C2: in the direct-violation scenario check returns kept = false with the
\* single chain [{importer: low.b, imported: high.a, line_numbers: (10,)}].
C2_DirectViolationReported ==
    (DirectScenario /\ Finished) =>
        /\ Returned
        /\ ~is_kept
        /\ Len(invalid_chains) = 1
        /\ Len(invalid_chains[1]) = 1
        /\ invalid_chains[1][1].is_module
        /\ invalid_chains[1][1].importer = LowB
        /\ invalid_chains[1][1].imported = HighA
        /\ invalid_chains[1][1].line_numbers = {10}

\* Modules reachable from s along edges E (s itself excluded unless on a cycle).
RECURSIVE ReachFrom(_, _, _)
ReachFrom(E, S, k) ==
    IF k = 0 THEN S
    ELSE ReachFrom(E, S \cup UNION {ImportedBy(E, m) : m \in S}, k - 1)
Reachable(E, N, s) == ReachFrom(E, ImportedBy(E, s), Cardinality(N))

\* Some lower layer's subtree reaches a higher layer's subtree of the same
\* container in the graph with the ignored imports left out.
ForbiddenPathExists ==
    LET E  == graph0.edges \ ignore_imports
        N  == graph0.nodes
        qc == QuasiContainers(containers)
    IN \E k \in DOMAIN qc, i, j \in DOMAIN layers :
         /\ i < j
         /\ LET hm == ModuleFromLayer(layers[i], qc[k])
                lm == ModuleFromLayer(layers[j], qc[k])
            IN /\ hm \in N /\ lm \in N
               /\ \E s \in {x \in N : IsDescendantOf(x, lm)} :
                    \E t \in Reachable(E, N, s) : IsDescendantOf(t, hm)

\* C3: check returns, with kept = true and no chains exactly when no lower
\* layer reaches a higher layer, and kept = false whenever one does.
C3_KeptIffNoForbiddenPath ==
    Finished =>
        /\ Returned
        /\ is_kept = ~ForbiddenPathExists
        /\ ~ForbiddenPathExists => invalid_chains = <<>>

\* Transitive scenario: layers ["high", "mid", "low"], no containers, edges
\* low.b -> mid.y -> high.a.
MidY == <<"mid", "y">>
TransitiveScenario ==
    /\ layers = <<Layer("high", FALSE), Layer("mid", FALSE), Layer("low", FALSE)>>
    /\ containers = <<>>
    /\ ignore_imports = {}
    /\ graph0.edges = {<<LowB, MidY>>, <<MidY, HighA>>}

\* C4: check returns kept = false with a 2-edge chain low.b -> mid.y -> high.a.
C4_TransitiveViolationReported ==
    (TransitiveScenario /\ Finished) =>
        /\ Returned
        /\ ~is_kept
        /\ \E k \in DOMAIN invalid_chains :
             /\ Len(invalid_chains[k]) = 2
             /\ \A r \in 1..2 : invalid_chains[k][r].is_module
             /\ invalid_chains[k][1].importer = LowB
             /\ invalid_chains[k][1].imported = MidY
             /\ invalid_chains[k][2].imported = HighA

\* Two containers with layers ["high", "low"]; the only edge is the violating
\* c1.low.b -> c1.high.a.
ContainerScenario ==
    /\ layers = <<Layer("high", FALSE), Layer("low", FALSE)>>
    /\ containers = <<"c1", "c2">>
    /\ ignore_imports = {}
    /\ graph0.edges = {<<M("c1", "low"), M("c1", "high")>>}

\* C5: check returns exactly one chain, every record of which lies in c1.
C5_ContainersIndependent ==
    (ContainerScenario /\ Finished) =>
        /\ Returned
        /\ Len(invalid_chains) = 1
        /\ \A r \in DOMAIN invalid_chains[1] :
             /\ invalid_chains[1][r].is_module
             /\ IsDescendantOf(invalid_chains[1][r].importer, <<"c1">>)
             /\ IsDescendantOf(invalid_chains[1][r].imported, <<"c1">>)

\* C6: every record of every returned chain is an edge of the caller's graph
\* between real modules, with that edge's non-empty line numbers.
C6_ChainsAuthentic ==
    Returned =>
        \A k \in DOMAIN invalid_chains : \A r \in DOMAIN invalid_chains[k] :
            AuthenticRecord(invalid_chains[k][r])

RequiredLayerMissing ==
    \E k \in DOMAIN QuasiContainers(containers), i \in DOMAIN layers :
        /\ ~layers[i].is_optional
        /\ ModuleFromLayer(layers[i], QuasiContainers(containers)[k]) \notin graph0.nodes

\* C7: a missing required layer module raises a configuration error before any
\* pair is evaluated; otherwise no enumerated pair names an absent module.
C7_ValidationBeforeAnalysis ==
    /\ RequiredLayerMissing => (pc = "start" \/ (pc = "error" /\ error = "config"))
    /\ \A k \in DOMAIN todo : todo[k][1] \in graph.nodes /\ todo[k][2] \in graph.nodes

(***************************************************************************)
(* _squash_package on its own: a graph and a package P to squash.          *)
(***************************************************************************)
SqNodes == {<<"high">>, <<"high", "a">>, <<"high", "d">>, <<"low">>, <<"low", "b">>, <<"x1">>}
SqEdges == { << <<"low", "b">>, <<"high", "a">> >>, << <<"low", "b">>, <<"high", "d">> >>,
             << <<"high", "a">>, <<"x1">> >>, << <<"high", "d">>, <<"x1">> >>,
             << <<"high", "a">>, <<"high", "d">> >>, << <<"x1">>, <<"low", "b">> >>,
             << <<"x1">>, <<"high">> >> }
SqLines(e) == IF e[1] = <<"high", "d">> \/ e[2] = <<"high", "d">> THEN {20, 21} ELSE {10}

SquashInit ==
    \E E \in SUBSET SqEdges, P \in {<<"high">>, <<"low">>} :
        /\ graph = [nodes |-> SqNodes, edges |-> E, lines |-> [e \in E |-> SqLines(e)]]
        /\ graph0 = graph
        /\ package = P
        /\ pc = "start"
        /\ layers = <<>> /\ containers = <<>> /\ ignore_imports = {} /\ todo = <<>>
        /\ is_kept = TRUE /\ high_level_invalid_chains = <<>> /\ removed_imports = {}
        /\ invalid_chains = <<>> /\ error = "" /\ coarse = <<>>

Squash ==
    /\ pc = "start"
    /\ graph' = SquashPackage(package, graph)
    /\ pc' = "done"
    /\ UNCHANGED <<layers, containers, ignore_imports, graph0, todo, is_kept,
                   high_level_invalid_chains, removed_imports, invalid_chains, error,
                   package, coarse>>

SquashSpec == SquashInit /\ [][Squash]_vars

\* C8: after squashing P, boundary edges are those of the members renamed to P,
\* each carrying the union of the members' line numbers; other edges unchanged.
C8_SquashPreservesBoundary ==
    (pc = "done") =>
        LET members == {package} \cup FindDescendants(graph0.nodes, package)
            outside == graph0.nodes \ members
            E0 == graph0.edges
        IN /\ graph.nodes = outside \cup {package}
           /\ {e \in graph.edges : e[1] # package /\ e[2] # package}
                = {e \in E0 : e[1] \notin members /\ e[2] \notin members}
           /\ \A e \in {f \in graph.edges : f[1] # package /\ f[2] # package} :
                graph.lines[e] = graph0.lines[e]
           /\ \A x \in outside :
                /\ (<<x, package>> \in graph.edges) = (\E m \in members : <<x, m>> \in E0)
                /\ (<<package, x>> \in graph.edges) = (\E m \in members : <<m, x>> \in E0)
                /\ <<x, package>> \in graph.edges =>
                     graph.lines[<<x, package>>]
                       = UNION {graph0.lines[<<x, m>>] : m \in {n \in members : <<x, n>> \in E0}}
                /\ <<package, x>> \in graph.edges =>
                     graph.lines[<<package, x>>]
                       = UNION {graph0.lines[<<m, x>>] : m \in {n \in members : <<n, x>> \in E0}}

(***************************************************************************)
(* _generate_module_permutations on its own.                               *)
(***************************************************************************)
PermLayerConfigs ==
    LayerConfigs \cup
    { <<Layer("high", FALSE), Layer("mid", FALSE), Layer("aux", TRUE), Layer("low", FALSE)>> }

LayerModules(ls, conts) ==
    {ModuleFromLayer(ls[i], QuasiContainers(conts)[k]) :
        i \in DOMAIN ls, k \in DOMAIN QuasiContainers(conts)}

PermInit ==
    \E ls \in PermLayerConfigs, conts \in ContainerConfigs :
    \E N \in SUBSET LayerModules(ls, conts) :
        /\ layers = ls
        /\ containers = conts
        /\ graph = [nodes |-> N, edges |-> {}, lines |-> [e \in {} |-> {}]]
        /\ graph0 = graph
        /\ pc = "start"
        /\ todo = <<>>
        /\ ignore_imports = {} /\ is_kept = TRUE /\ high_level_invalid_chains = <<>>
        /\ removed_imports = {} /\ invalid_chains = <<>> /\ error = ""
        /\ package = <<>> /\ coarse = <<>>

Enumerate ==
    /\ pc = "start"
    /\ todo' = GenerateModulePermutations(layers, containers, graph.nodes)
    /\ pc' = "done"
    /\ UNCHANGED <<layers, containers, ignore_imports, graph, graph0, is_kept,
                   high_level_invalid_chains, removed_imports, invalid_chains, error,
                   package, coarse>>

PermSpec == PermInit /\ [][Enumerate]_vars

\* Index triples (container, higher layer, lower layer) whose modules exist.
ExpectedPairIndices ==
    LET qc == QuasiContainers(containers) IN
    {t \in (DOMAIN qc) \X (DOMAIN layers) \X (DOMAIN layers) :
        /\ t[2] < t[3]
        /\ ModuleFromLayer(layers[t[2]], qc[t[1]]) \in graph.nodes
        /\ ModuleFromLayer(layers[t[3]], qc[t[1]]) \in graph.nodes}

ExpectedPairs ==
    {<<ModuleFromLayer(layers[t[2]], QuasiContainers(containers)[t[1]]),
       ModuleFromLayer(layers[t[3]], QuasiContainers(containers)[t[1]])>> :
        t \in ExpectedPairIndices}

\* C9: the enumerator yields, once each, exactly the (higher, lower) module
\* pairs of every container and every layer index pair i < j whose two
\* modules are in the graph.
C9_PairEnumeration ==
    (pc = "done") =>
        /\ {todo[k] : k \in DOMAIN todo} = ExpectedPairs
        /\ Len(todo) = Cardinality(ExpectedPairIndices)

\* Witness: two containers, a non-adjacent pair yielded, an absent module.
C9_Witness ==
    /\ pc = "done"
    /\ containers = <<"c1", "c2">>
    /\ Len(layers) = 4
    /\ << <<"c2", "high">>, <<"c2", "low">> >> \in {todo[k] : k \in DOMAIN todo}
    /\ <<"c1", "mid">> \notin graph.nodes

(***************************************************************************)
(* _determine_specific_chains / _convert_chains on coarse chains of module *)
(* names, as their signature declares, against the original graph.        *)
(***************************************************************************)
\* _convert_chains for one concrete chain.
ConvertChain(chain, G) ==
    [i \in 1..(Len(chain) - 1) |->
        [importer |-> chain[i], imported |-> chain[i + 1],
         line_numbers |-> IF <<chain[i], chain[i + 1]>> \in G.edges
                          THEN G.lines[<<chain[i], chain[i + 1]>>] ELSE {},
         is_module |-> TRUE]]

StartingModules(chain, G) == {m \in Importers(G.edges, chain[2]) : IsDescendantOf(m, chain[1])}
EndingModules(chain, G) ==
    {m \in ImportedBy(G.edges, chain[Len(chain) - 1]) : IsDescendantOf(m, chain[Len(chain)])}

\* Lines 167-192 for a coarse chain of length >= 3; indexing an empty list
\* raises IndexError.
SpecificChainsOfChain(chain, G) ==
    LET starting == SetToSeq(StartingModules(chain, G))
        ending   == SetToSeq(EndingModules(chain, G))
        middle   == SubSeq(chain, 2, Len(chain) - 1)
    IN IF (starting # <<>> /\ ending = <<>>) \/ (starting = <<>> /\ Len(ending) > 1)
       THEN Err("IndexError")
       ELSE Ok([k \in DOMAIN starting |-> <<starting[k]>> \o middle \o <<ending[1]>>]
               \o [k \in 1..(Len(ending) - 1) |->
                     <<starting[1]>> \o middle \o <<ending[k + 1]>>])

RcNodes == {<<"low">>, <<"low", "b">>, <<"low", "c">>, <<"high">>, <<"high", "a">>,
            <<"high", "d">>, <<"x1">>, <<"x2">>}
RcEdges == { << <<"low", "b">>, <<"x1">> >>, << <<"low", "c">>, <<"x1">> >>,
             << <<"x1">>, <<"high", "a">> >>, << <<"x1">>, <<"high", "d">> >>,
             << <<"x1">>, <<"x2">> >>, << <<"x2">>, <<"high", "a">> >>,
             << <<"x2">>, <<"high", "d">> >> }
RcChains == { << <<"low">>, <<"x1">>, <<"high">> >>,
              << <<"low">>, <<"x1">>, <<"x2">>, <<"high">> >> }

ReconInit ==
    \E E \in SUBSET RcEdges, ch \in RcChains :
        /\ graph = [nodes |-> RcNodes, edges |-> E, lines |-> [e \in E |-> {10}]]
        /\ graph0 = graph
        /\ coarse = ch
        /\ pc = "start"
        /\ invalid_chains = <<>>
        /\ error = ""
        /\ layers = <<>> /\ containers = <<>> /\ ignore_imports = {} /\ todo = <<>>
        /\ is_kept = TRUE /\ high_level_invalid_chains = <<>> /\ removed_imports = {}
        /\ package = <<>>

Reconstruct ==
    /\ pc = "start"
    /\ LET out == SpecificChainsOfChain(coarse, graph) IN
       IF out.err # ""
       THEN pc' = "error" /\ error' = out.err /\ invalid_chains' = invalid_chains
       ELSE /\ pc' = "done" /\ error' = error
            /\ invalid_chains' = [k \in DOMAIN out.chains |-> ConvertChain(out.chains[k], graph)]
    /\ UNCHANGED <<layers, containers, ignore_imports, graph, graph0, todo, is_kept,
                   high_level_invalid_chains, removed_imports, package, coarse>>

ReconSpec == ReconInit /\ [][Reconstruct]_vars

\* C10: with S and E non-empty, |S| + |E| - 1 chains, each from the lower
\* root's subtree to the higher root's subtree; with S or E empty, a failure.
C10_ChainReconstruction ==
    LET S == StartingModules(coarse, graph0)
        E == EndingModules(coarse, graph0)
    IN pc \in {"done", "error"} =>
        /\ (S # {} /\ E # {}) =>
             /\ pc = "done"
             /\ Len(invalid_chains) = Cardinality(S) + Cardinality(E) - 1
             /\ \A k \in DOMAIN invalid_chains :
                  /\ IsDescendantOf(invalid_chains[k][1].importer, coarse[1])
                  /\ IsDescendantOf(invalid_chains[k][Len(invalid_chains[k])].imported,
                                    coarse[Len(coarse)])
        /\ (S = {} \/ E = {}) => pc = "error"

====
